---- MODULE Spec2Model ----
(***************************************************************************)
(* The two contracts documented by this repository: the Recurring Payments *)
(* contract (subscriptions) and the Automation Layer (automated accounts). *)
(* The repository holds their interface: signatures, structs, events, the  *)
(* documented behaviour and the example integrator contract. What the      *)
(* interface pages leave open is modelled from the design specification.   *)
(* The two contracts are separate deployments that share no storage; a     *)
(* behaviour sends its transactions to one of them.                        *)
(***************************************************************************)
EXTENDS Integers, Sequences, FiniteSets, TLC

VARIABLES
  deployment,               \* the contract the transactions are sent to
  now,                      \* block.timestamp, seconds
  blockNumber,              \* blocks mined so far
  balances,                 \* ERC-20 balanceOf, per address
  allowance,                \* ERC-20 allowance granted to the deployed contract
  recurringPayments,        \* Recurring Payments: accountNumber -> RecurringPayment
  paymentCounter,           \* Recurring Payments: next accountNumber
  accountNumbersByAddress,  \* Recurring Payments: address -> accountNumbers
  cancelledPayments,        \* Recurring Payments: getCancelledAccounts()
  accountsByNumber,         \* Automation Layer: accountNumber -> Account
  accountCounter,           \* Automation Layer: next accountNumber
  accountsByAddress,        \* Automation Layer: address -> accountNumbers
  cancelledAccounts,        \* Automation Layer: getCancelledAccounts()
  accountCreationFee,       \* Automation Layer: fee charged by createAccount
  nextDue,                  \* integrator contract: id -> next run
  lastRun,                  \* history: id -> block.timestamp of its registration or latest run
  log,                      \* event log of the finalized transactions
  last                      \* the latest transaction and how it ended

erc20 == <<balances, allowance>>
payments == <<recurringPayments, paymentCounter, accountNumbersByAddress, cancelledPayments>>
automation == <<accountsByNumber, accountCounter, accountsByAddress, cancelledAccounts,
                accountCreationFee>>
integrator == <<nextDue, lastRun>>
chain == <<deployment, now, blockNumber>>

vars == <<chain, erc20, payments, automation, integrator, log, last>>

-----------------------------------------------------------------------------
(* Bounds of the model *)

MaxBlocks == 2
MaxAccounts == 2
MaxLog == 3

-----------------------------------------------------------------------------
(* Documented constants *)

Day == 86400
Week == 604800

GracePeriodOneHour == 60 * 60
GracePeriod == 86400

Owner == "owner"
Node == "node"
Senders == {"alice"}
Recipients == {"merchant"}
Interfaces == {"gateway"}
Tokens == {"USDC"}
Contracts == {"appA", "appB"}
PaymentParties == Senders \cup Recipients \cup Interfaces \cup {Owner}
Addresses == PaymentParties \cup Contracts \cup {Node}

Amount == 10000000
Amounts == {0, Amount}
Intervals == {0, Day}
FreeTrials == {0, Day}
Metadata == {<<"customer_123", "plan_gold">>}
\* Block times: the grace boundary needs a day and the second after it; the
\* integrator's schedule runs in weeks.
Deltas == IF deployment = "RecurringPayments" THEN {Day, Day + 1} ELSE {Week}
AccountNumbers == 0 .. MaxAccounts - 1

NoCall == [op |-> "none", caller |-> "none", arg |-> 0, result |-> "ok"]

Call(op, caller, arg) == [op |-> op, caller |-> caller, arg |-> arg, result |-> "ok"]

-----------------------------------------------------------------------------
(* Transaction outcome: a revert keeps the whole chain state and only the  *)
(* caller learns the reason.                                               *)

Revert(call, reason) ==
  /\ last' = [call EXCEPT !.result = reason]
  /\ UNCHANGED <<chain, erc20, payments, automation, integrator, log>>

Emit(event) == Len(log) < MaxLog /\ log' = Append(log, event)

-----------------------------------------------------------------------------
(* ERC-20 fee/charge token *)

CanPullOnBalance(from, amount) == balances[from] >= amount
CanPull(from, amount) == balances[from] >= amount /\ allowance[from] >= amount

\* The token's total: the sum of the balances of the holders in `who`.
RECURSIVE TotalOf(_, _)
TotalOf(bal, who) ==
  IF who = {} THEN 0
  ELSE LET x == CHOOSE y \in who : TRUE IN bal[x] + TotalOf(bal, who \ {x})

Credit(bal, who, amount) == [bal EXCEPT ![who] = @ + amount]
Debit(bal, who, amount) == [bal EXCEPT ![who] = @ - amount]

-----------------------------------------------------------------------------
(* Recurring Payments contract: views *)

PaymentExists(a) == a \in DOMAIN recurringPayments

getPaymentDue(a) == IF PaymentExists(a) THEN recurringPayments[a].paymentDue ELSE 0

isPaymentCanceled(a) == PaymentExists(a) /\ recurringPayments[a].canceled

\* The answer read off the zero record that an unassigned number maps to.
isSubscriptionValidAtZeroRecord(a, t) ==
  IF PaymentExists(a)
  THEN ~recurringPayments[a].canceled /\ t <= recurringPayments[a].paymentDue + GracePeriod
  ELSE t <= GracePeriod

isSubscriptionValidAt(a, t) ==
  /\ PaymentExists(a)
  /\ ~recurringPayments[a].canceled
  /\ t <= recurringPayments[a].paymentDue + GracePeriod

isSubscriptionValid(a) == isSubscriptionValidAt(a, now)

getCancelledPayments == cancelledPayments

\* Both registries keep the list of cancelled accountNumbers by appending the
\* number of the record a cancellation has just flagged.
PushCancelledNowhere(list, n) == list
PushCancelled(list, n) == Append(list, n)

getAccountNumbersByAddress(addr) ==
  IF addr \in DOMAIN accountNumbersByAddress THEN accountNumbersByAddress[addr] ELSE <<>>

-----------------------------------------------------------------------------
(* Recurring Payments contract: createRecurringPayment *)

FirstPaymentDueNoTrial(t, freeTrial) == t
FirstPaymentDue(t, freeTrial) == t + freeTrial

NewPayment(n, sender, recipient, amount, token, interval, interface, info, freeTrial) ==
  [accountNumber |-> n, sender |-> sender, recipient |-> recipient, amount |-> amount,
   token |-> token, timeIntervalSeconds |-> interval, paymentInterface |-> interface,
   additionalInformation |-> info, paymentDue |-> FirstPaymentDue(now, freeTrial),
   canceled |-> FALSE]

NextPaymentNumberStuck(n) == n
NextPaymentNumber(n) == n + 1

IndexPaymentSenderOnly(index, n, sender, recipient) ==
  [index EXCEPT ![sender] = Append(@, n)]

IndexPayment(index, n, sender, recipient) ==
  [x \in DOMAIN index |->
     IF x = sender \/ x = recipient THEN Append(index[x], n) ELSE index[x]]

createRecurringPaymentResult(amount, interval) ==
  IF amount = 0 \/ interval = 0 THEN "InvalidArgument" ELSE "ok"

createRecurringPayment(sender, recipient, amount, token, interval, interface, info, freeTrial) ==
  LET call == Call("createRecurringPayment", sender, freeTrial)
      result == createRecurringPaymentResult(amount, interval)
      n == paymentCounter
      p == NewPayment(n, sender, recipient, amount, token, interval, interface, info, freeTrial)
  IN  IF result # "ok" THEN Revert(call, result)
      ELSE /\ recurringPayments' = (n :> p) @@ recurringPayments
           /\ paymentCounter' = NextPaymentNumber(n)
           /\ accountNumbersByAddress' = IndexPayment(accountNumbersByAddress, n, sender, recipient)
           /\ Emit([type |-> "RecurringPaymentCreated"] @@ p)
           /\ last' = call
           /\ UNCHANGED <<chain, erc20, cancelledPayments, automation, integrator>>

-----------------------------------------------------------------------------
(* Recurring Payments contract: cancelRecurringPayment *)

CanCancelPaymentOrInterface(caller, p) ==
  caller = p.sender \/ caller = p.recipient \/ caller = p.paymentInterface \/ caller = Owner

CanCancelPayment(caller, p) == caller = p.sender \/ caller = p.recipient \/ caller = Owner

cancelRecurringPaymentResultRepeatable(caller, a) ==
  IF ~PaymentExists(a) THEN "NotFound"
  ELSE IF ~CanCancelPayment(caller, recurringPayments[a]) THEN "AuthorizationFailure"
  ELSE "ok"

cancelRecurringPaymentResult(caller, a) ==
  IF ~PaymentExists(a) THEN "NotFound"
  ELSE IF ~CanCancelPayment(caller, recurringPayments[a]) THEN "AuthorizationFailure"
  ELSE IF recurringPayments[a].canceled THEN "AlreadyTerminal"
  ELSE "ok"

\* A cancellation sets the record's flag and keeps the rest of the record.
MarkCanceledAndReset(p) == [p EXCEPT !.canceled = TRUE, !.paymentDue = 0]
MarkCanceled(p) == [p EXCEPT !.canceled = TRUE]

RecurringPaymentCancelled(p) ==
  [type |-> "RecurringPaymentCancelled", index |-> p.accountNumber,
   sender |-> p.sender, recipient |-> p.recipient]

cancelRecurringPayment(caller, a) ==
  LET call == Call("cancelRecurringPayment", caller, a)
      result == cancelRecurringPaymentResult(caller, a)
  IN  IF result # "ok" THEN Revert(call, result)
      ELSE /\ recurringPayments' = [recurringPayments EXCEPT ![a] = MarkCanceled(@)]
           /\ cancelledPayments' = PushCancelled(cancelledPayments, a)
           /\ Emit(RecurringPaymentCancelled(recurringPayments[a]))
           /\ last' = call
           /\ UNCHANGED <<chain, erc20, paymentCounter, accountNumbersByAddress,
                          automation, integrator>>

-----------------------------------------------------------------------------
(* Recurring Payments contract: the charge run by the automation nodes *)

FeePercent == 1

ServiceFee(amount) == (amount * FeePercent) \div 100
InterfaceShare(amount) == ServiceFee(amount) \div 2
OwnerShareWholeFee(amount) == ServiceFee(amount)
OwnerShare(amount) == ServiceFee(amount) - InterfaceShare(amount)
RecipientShare(amount) == amount - ServiceFee(amount)

PayOut(bal, p) ==
  Credit(Credit(Credit(Debit(bal, p.sender, p.amount),
                       p.recipient, RecipientShare(p.amount)),
                p.paymentInterface, InterfaceShare(p.amount)),
         Owner, OwnerShare(p.amount))

IsDueAnyTime(p, t) == TRUE
IsDueWithinGrace(p, t) == t + GracePeriod >= p.paymentDue
IsDue(p, t) == t >= p.paymentDue

AdvanceDueFromNow(p) == now + p.timeIntervalSeconds
\* A charge that skips the periods missed and schedules the first due time
\* after now.
AdvanceDuePastNow(p) ==
  p.paymentDue + (((now - p.paymentDue) \div p.timeIntervalSeconds) + 1) * p.timeIntervalSeconds

AdvanceDue(p) == p.paymentDue + p.timeIntervalSeconds

PaymentTransferred(a) == [type |-> "PaymentTransferred", index |-> a]

transferPaymentResult(a) ==
  IF ~PaymentExists(a) THEN "NotFound"
  ELSE LET p == recurringPayments[a] IN
       IF p.canceled THEN "AlreadyTerminal"
       ELSE IF ~IsDue(p, now) THEN "NotYetDue"
       ELSE IF ~CanPull(p.sender, p.amount) THEN "InsufficientFunds"
       ELSE "ok"

transferPayment(node, a) ==
  LET call == Call("transferPayment", node, a)
      result == transferPaymentResult(a)
  IN  IF result # "ok" THEN Revert(call, result)
      ELSE LET p == recurringPayments[a] IN
           /\ balances' = PayOut(balances, p)
           /\ allowance' = Debit(allowance, p.sender, p.amount)
           /\ recurringPayments' = [recurringPayments EXCEPT ![a].paymentDue = AdvanceDue(p)]
           /\ Emit(PaymentTransferred(a))
           /\ last' = call
           /\ UNCHANGED <<chain, paymentCounter, accountNumbersByAddress,
                          cancelledPayments, automation, integrator>>

-----------------------------------------------------------------------------
(* Integrator contract (MyAutomatedContract of the quick start): hooks *)

HookInterval == 604800

HookCheckNever(c, id) == FALSE
HookCheckAlways(c, id) == TRUE
HookCheck(c, id) == now >= nextDue[c][id]

HookRunSkipped(due, c, id) == due
HookRun(due, c, id) == [due EXCEPT ![c][id] = now + HookInterval]

-----------------------------------------------------------------------------
(* Automation Layer: views *)

AccountExists(n) == n \in DOMAIN accountsByNumber

isAccountCanceled(n) == AccountExists(n) /\ accountsByNumber[n].cancelled

getCancelledAccounts == cancelledAccounts

getAccountsByAddress(addr) ==
  IF addr \in DOMAIN accountsByAddress THEN accountsByAddress[addr] ELSE <<>>

AccountsOfAnyCaller(caller, id) ==
  {n \in DOMAIN accountsByNumber : accountsByNumber[n].id = id}

AccountsOf(caller, id) ==
  {n \in DOMAIN accountsByNumber :
     accountsByNumber[n].account = caller /\ accountsByNumber[n].id = id}

IsRegisteredByAnyone(caller, id) ==
  \E n \in DOMAIN accountsByNumber : accountsByNumber[n].id = id

\* An id counted as taken only while its account is active.
IsRegisteredAndActive(caller, id) ==
  \E n \in AccountsOf(caller, id) : ~accountsByNumber[n].cancelled

IsRegistered(caller, id) == AccountsOf(caller, id) # {}

AccountNumberOf(caller, id) == CHOOSE n \in AccountsOf(caller, id) : TRUE

\* The id the registering contract gave: what its hooks are called with.
HookIdIsAccountNumber(n) == n
HookId(n) == accountsByNumber[n].id

checkSimpleAutomation(n) ==
  /\ AccountExists(n)
  /\ ~accountsByNumber[n].cancelled
  /\ HookCheck(accountsByNumber[n].account, HookId(n))

-----------------------------------------------------------------------------
(* Automation Layer: createAccount *)

InitialCreationFee == 5
RaisedCreationFee == 8
AutomationFee == 1
CreationFees == {InitialCreationFee, RaisedCreationFee}

NewAccount(caller, id) ==
  [account |-> caller, id |-> id, accountCreationFee |-> accountCreationFee,
   cancelled |-> FALSE]

NextAccountNumberStuck(n) == n
NextAccountNumber(n) == n + 1

createAccountResultUnfunded(caller, id) ==
  IF id = 0 THEN "InvalidArgument"
  ELSE IF IsRegistered(caller, id) THEN "DuplicateRegistration"
  ELSE "ok"

createAccountResultAnyId(caller, id) ==
  IF IsRegistered(caller, id) THEN "DuplicateRegistration"
  ELSE IF ~CanPull(caller, accountCreationFee) THEN "InsufficientFunds"
  ELSE "ok"

createAccountResult(caller, id) ==
  IF id = 0 THEN "InvalidArgument"
  ELSE IF IsRegistered(caller, id) THEN "DuplicateRegistration"
  ELSE IF ~CanPull(caller, accountCreationFee) THEN "InsufficientFunds"
  ELSE "ok"

IndexAccountLatestOnly(index, caller, n) == [index EXCEPT ![caller] = <<n>>]
IndexAccount(index, caller, n) == [index EXCEPT ![caller] = Append(@, n)]

\* The state change of a createAccount(id) that does not revert.
createAccountEffect(caller, id) ==
  LET n == accountCounter IN
  /\ balances' = Credit(Debit(balances, caller, accountCreationFee), Owner, accountCreationFee)
  /\ allowance' = Debit(allowance, caller, accountCreationFee)
  /\ accountsByNumber' = (n :> NewAccount(caller, id)) @@ accountsByNumber
  /\ accountCounter' = NextAccountNumber(n)
  /\ accountsByAddress' = IndexAccount(accountsByAddress, caller, n)
  /\ Emit([type |-> "AccountCreated", customer |-> caller])
  /\ UNCHANGED <<chain, payments, cancelledAccounts, accountCreationFee>>

\* createAccount(id) as the integrator contract sends it: register() schedules
\* the id and registers it in one transaction.
createAccount(caller, id) ==
  LET call == Call("createAccount", caller, id)
      result == createAccountResult(caller, id)
  IN  IF result # "ok" THEN Revert(call, result)
      ELSE /\ nextDue' = [nextDue EXCEPT ![caller][id] = now + HookInterval]
           /\ lastRun' = [lastRun EXCEPT ![caller][id] = now]
           /\ createAccountEffect(caller, id)
           /\ last' = call

-----------------------------------------------------------------------------
(* Automation Layer: cancelAccount *)

\* What a cancellation gives back: the fee the record stored at its creation.
RefundAtCurrentFee(n) == accountCreationFee
RefundOf(n) == accountsByNumber[n].accountCreationFee

\* The owner pays the refund, out of what the owner approved for refunds.
RefundAlwaysPaid(fee) == TRUE
RefundCanBePaid(fee) == CanPull(Owner, fee)

cancelAccountResult(caller, id) ==
  IF ~IsRegistered(caller, id) THEN "AuthorizationFailure"
  ELSE LET n == AccountNumberOf(caller, id) IN
       IF accountsByNumber[n].cancelled THEN "AlreadyTerminal"
       ELSE IF ~RefundCanBePaid(RefundOf(n)) THEN "InsufficientFunds"
       ELSE "ok"

cancelAccount(caller, id) ==
  LET call == Call("cancelAccount", caller, id)
      result == cancelAccountResult(caller, id)
  IN  IF result # "ok" THEN Revert(call, result)
      ELSE LET n == AccountNumberOf(caller, id)
               fee == RefundOf(n)
           IN  /\ accountsByNumber' = [accountsByNumber EXCEPT ![n].cancelled = TRUE]
               /\ cancelledAccounts' = PushCancelled(cancelledAccounts, n)
               /\ balances' = Credit(Debit(balances, Owner, fee), caller, fee)
               /\ allowance' = Debit(allowance, Owner, fee)
               /\ Emit([type |-> "AccountCancelled", index |-> n, account |-> caller])
               /\ last' = call
               /\ UNCHANGED <<chain, payments, accountCounter, accountsByAddress,
                              accountCreationFee, integrator>>

-----------------------------------------------------------------------------
(* Automation Layer: execution by a node *)

simpleAutomationResultIgnoringCancel(n, actionSucceeds) ==
  IF ~AccountExists(n) THEN "NotFound"
  ELSE LET acc == accountsByNumber[n] IN
       IF ~HookCheck(acc.account, HookId(n)) THEN "NotEligible"
       ELSE IF ~actionSucceeds THEN "ActionFailed"
       ELSE IF ~CanPull(acc.account, AutomationFee) THEN "InsufficientFunds"
       ELSE "ok"

simpleAutomationResult(n, actionSucceeds) ==
  IF ~AccountExists(n) THEN "NotFound"
  ELSE LET acc == accountsByNumber[n] IN
       IF acc.cancelled THEN "AlreadyTerminal"
       ELSE IF ~HookCheck(acc.account, HookId(n)) THEN "NotEligible"
       ELSE IF ~actionSucceeds THEN "ActionFailed"
       ELSE IF ~CanPull(acc.account, AutomationFee) THEN "InsufficientFunds"
       ELSE "ok"

\* An execution whose success event outlives the failure of the action.
simpleAutomationKeepsEvent(node, n, actionSucceeds) ==
  LET call == Call("simpleAutomation", node, n)
      result == simpleAutomationResult(n, actionSucceeds)
  IN  IF result \notin {"ok", "ActionFailed"} THEN Revert(call, result)
      ELSE LET acc == accountsByNumber[n]
               fee == IF result = "ok" THEN AutomationFee ELSE 0
           IN  /\ Emit([type |-> "TransactionSuccess", index |-> n])
               /\ nextDue' = IF result = "ok" THEN HookRun(nextDue, acc.account, HookId(n))
                                              ELSE nextDue
               /\ lastRun' = lastRun
               /\ balances' = Credit(Debit(balances, acc.account, fee), node, fee)
               /\ allowance' = Debit(allowance, acc.account, fee)
               /\ last' = [call EXCEPT !.result = result]
               /\ UNCHANGED <<chain, payments, automation>>

simpleAutomation(node, n, actionSucceeds) ==
  LET call == Call("simpleAutomation", node, n)
      result == simpleAutomationResult(n, actionSucceeds)
  IN  IF result # "ok" THEN Revert(call, result)
      ELSE LET acc == accountsByNumber[n] IN
           /\ Emit([type |-> "TransactionSuccess", index |-> n])
           /\ nextDue' = HookRun(nextDue, acc.account, HookId(n))
           /\ lastRun' = [lastRun EXCEPT ![acc.account][HookId(n)] = now]
           /\ balances' = Credit(Debit(balances, acc.account, AutomationFee), node, AutomationFee)
           /\ allowance' = Debit(allowance, acc.account, AutomationFee)
           /\ last' = call
           /\ UNCHANGED <<chain, payments, automation>>

-----------------------------------------------------------------------------
(* Automation Layer: fee configuration by the owner *)

setAccountCreationFee(caller, fee) ==
  LET call == Call("setAccountCreationFee", caller, fee) IN
  IF caller # Owner THEN Revert(call, "AuthorizationFailure")
  ELSE /\ accountCreationFee' = fee
       /\ last' = call
       /\ UNCHANGED <<chain, erc20, payments, accountsByNumber, accountCounter,
                      accountsByAddress, cancelledAccounts, integrator, log>>

-----------------------------------------------------------------------------
(* The chain *)

Ids == 0 .. 2

InitialBalances ==
  [x \in Addresses |->
     IF x = "alice" THEN 2 * Amount
     ELSE IF x = "appA" THEN 2 * InitialCreationFee + 2 * AutomationFee
     ELSE IF x = "appB" THEN 2 * RaisedCreationFee
     ELSE 0]

\* What the holders have approved before the first transaction: the payer one
\* charge or several, the owner one refund at the initial fee, the integrators
\* their fees.
InitialAllowance(payerApproval) ==
  [x \in Addresses |->
     IF x = "alice" THEN payerApproval
     ELSE IF x = Owner THEN InitialCreationFee
     ELSE IF x = "appA" THEN 2 * RaisedCreationFee
     ELSE IF x = "appB" THEN InitialCreationFee
     ELSE 0]

Deployed(contract) ==
  /\ deployment = contract
  /\ now = 0
  /\ blockNumber = 0
  /\ balances = InitialBalances
  /\ \E a \in IF deployment = "RecurringPayments" THEN {Amount, 3 * Amount} ELSE {Amount} :
        allowance = InitialAllowance(a)
  /\ recurringPayments = <<>>
  /\ paymentCounter = 0
  /\ accountNumbersByAddress = [x \in Addresses |-> <<>>]
  /\ cancelledPayments = <<>>
  /\ accountsByNumber = <<>>
  /\ accountCounter = 0
  /\ accountsByAddress = [x \in Addresses |-> <<>>]
  /\ cancelledAccounts = <<>>
  /\ accountCreationFee = InitialCreationFee
  /\ nextDue = [c \in Contracts |-> [i \in Ids |-> 0]]
  /\ lastRun = [c \in Contracts |-> [i \in Ids |-> 0]]
  /\ log = <<>>
  /\ last = NoCall

Init == \E contract \in {"RecurringPayments", "AutomationLayer"} : Deployed(contract)

PaymentsInit == Deployed("RecurringPayments")

AutomationInit == Deployed("AutomationLayer")

Tick ==
  /\ blockNumber < MaxBlocks
  /\ \E d \in Deltas : now' = now + d
  /\ blockNumber' = blockNumber + 1
  /\ last' = NoCall
  /\ UNCHANGED <<deployment, erc20, payments, automation, integrator, log>>

CreatePayment ==
  /\ deployment = "RecurringPayments"
  /\ \E s \in Senders, r \in Recipients, m \in Amounts, k \in Tokens, i \in Intervals,
        u \in Interfaces, info \in Metadata, f \in FreeTrials :
        /\ paymentCounter < MaxAccounts \/ createRecurringPaymentResult(m, i) # "ok"
        /\ createRecurringPayment(s, r, m, k, i, u, info, f)

CancelPayment ==
  /\ deployment = "RecurringPayments"
  /\ \E c \in PaymentParties, a \in AccountNumbers : cancelRecurringPayment(c, a)

ChargePayment ==
  /\ deployment = "RecurringPayments"
  /\ \E a \in AccountNumbers : transferPayment(Node, a)

CreateAccount ==
  /\ deployment = "AutomationLayer"
  /\ \E c \in Contracts, id \in Ids :
        /\ accountCounter < MaxAccounts \/ createAccountResult(c, id) # "ok"
        /\ createAccount(c, id)

CancelAccount ==
  /\ deployment = "AutomationLayer"
  /\ \E c \in Contracts, id \in Ids : cancelAccount(c, id)

Execute ==
  /\ deployment = "AutomationLayer"
  /\ \E n \in AccountNumbers, ok \in BOOLEAN : simpleAutomation(Node, n, ok)

SetFee ==
  /\ deployment = "AutomationLayer"
  /\ \E f \in CreationFees : setAccountCreationFee(Owner, f)

Next ==
  \/ Tick
  \/ CreatePayment \/ CancelPayment \/ ChargePayment
  \/ CreateAccount \/ CancelAccount \/ Execute \/ SetFee

Spec == Init /\ [][Next]_vars

\* One deployment at a time, for the statements about a single contract.
PaymentsNext == Tick \/ CreatePayment \/ CancelPayment \/ ChargePayment

PaymentsSpec == PaymentsInit /\ [][PaymentsNext]_vars

AutomationNext == Tick \/ CreateAccount \/ CancelAccount \/ Execute \/ SetFee

AutomationSpec == AutomationInit /\ [][AutomationNext]_vars

\* The node operators pre-check every account continuously and send the call
\* that their pre-check found to succeed: an execution that stays possible is
\* eventually sent.
RunAccount(n) == simpleAutomationResult(n, TRUE) = "ok" /\ simpleAutomation(Node, n, TRUE)

FairAutomationSpec ==
  AutomationInit /\ [][AutomationNext]_vars /\ \A n \in AccountNumbers : WF_vars(RunAccount(n))

-----------------------------------------------------------------------------
(* Reading the event log *)

LastEvent == log[Len(log)]

Emitted(type) == {i \in 1 .. Len(log) : log[i].type = type}

PaymentsTransferred(a) == {i \in Emitted("PaymentTransferred") : log[i].index = a}

PaymentsCancelled(a) == {i \in Emitted("RecurringPaymentCancelled") : log[i].index = a}

AccountsCancelled(n) == {i \in Emitted("AccountCancelled") : log[i].index = n}

CreatedEvent(a) ==
  log[CHOOSE i \in Emitted("RecurringPaymentCreated") : log[i].accountNumber = a]

Succeeded(op) == last.op = op /\ last.result = "ok"

-----------------------------------------------------------------------------
(* Statements about the Recurring Payments contract *)

\* C1: for every accountNumber and every time now, isSubscriptionValid returns
\* true exactly when the record exists, is not canceled and now <= paymentDue +
\* 86400; it is true at paymentDue + 86400 and false at paymentDue + 86401.
C1_ValidWithinGrace ==
  \A a \in AccountNumbers :
    /\ isSubscriptionValid(a) <=>
         /\ a \in DOMAIN recurringPayments
         /\ recurringPayments[a].canceled = FALSE
         /\ now <= recurringPayments[a].paymentDue + 86400
    /\ (PaymentExists(a) /\ ~recurringPayments[a].canceled) =>
         /\ isSubscriptionValidAt(a, recurringPayments[a].paymentDue + 86400)
         /\ ~isSubscriptionValidAt(a, recurringPayments[a].paymentDue + 86401)

\* The last valid second of an active subscription has come.
C1_Witness ==
  \E a \in AccountNumbers :
    /\ PaymentExists(a)
    /\ ~recurringPayments[a].canceled
    /\ now = recurringPayments[a].paymentDue + 86400
    /\ isSubscriptionValid(a)

\* C2: a successful createRecurringPayment at time t with free trial f stores a
\* non-canceled record with paymentDue = t + f (t when f = 0); a record never
\* charged is valid up to and including t + f + 86400 and invalid from
\* t + f + 86401.
C2_FirstDueAfterTrial ==
  /\ Succeeded("createRecurringPayment") =>
       LET a == LastEvent.accountNumber
           f == last.arg
       IN  /\ LastEvent.type = "RecurringPaymentCreated"
           /\ PaymentExists(a)
           /\ recurringPayments[a].sender = last.caller
           /\ recurringPayments[a].canceled = FALSE
           /\ recurringPayments[a].paymentDue = now + f
           /\ (f = 0 => recurringPayments[a].paymentDue = now)
           /\ isSubscriptionValidAt(a, now + f + 86400)
           /\ ~isSubscriptionValidAt(a, now + f + 86401)
  /\ \A a \in AccountNumbers :
       (PaymentExists(a) /\ PaymentsTransferred(a) = {} /\ ~recurringPayments[a].canceled) =>
         /\ recurringPayments[a].paymentDue = CreatedEvent(a).paymentDue
         /\ isSubscriptionValid(a) <=> now <= CreatedEvent(a).paymentDue + 86400

\* Created at t = 0 with a free trial of one day, never charged, and the clock
\* stands at the last valid second, 86400 + 86400.
C2_Witness ==
  \E a \in AccountNumbers :
    /\ PaymentExists(a)
    /\ PaymentsTransferred(a) = {}
    /\ CreatedEvent(a).paymentDue = 86400
    /\ now = 86400 + 86400
    /\ isSubscriptionValid(a)

\* C3: a charge attempt is rejected whenever now < paymentDue or the record is
\* canceled; a PaymentTransferred event for an accountNumber is emitted only by
\* a step whose pre-state has canceled = false and now >= paymentDue.
C3_ChargeOnlyWhenDue ==
  [][/\ (Len(log') > Len(log) /\ log'[Len(log')].type = "PaymentTransferred") =>
          LET a == log'[Len(log')].index IN
            /\ PaymentExists(a)
            /\ recurringPayments[a].canceled = FALSE
            /\ now >= recurringPayments[a].paymentDue
     /\ (/\ last'.op = "transferPayment"
         /\ PaymentExists(last'.arg)
         /\ \/ recurringPayments[last'.arg].canceled
            \/ now < recurringPayments[last'.arg].paymentDue) =>
           /\ last'.result \in {"AlreadyTerminal", "NotYetDue"}
           /\ log' = log
           /\ recurringPayments' = recurringPayments
           /\ balances' = balances
    ]_vars

\* A charge was attempted before the due time and rejected.
C3_Witness ==
  /\ last.op = "transferPayment"
  /\ last.result = "NotYetDue"
  /\ now < recurringPayments[last.arg].paymentDue

\* C4: each successful charge advances the record's paymentDue by exactly
\* timeIntervalSeconds, however late it ran, and emits exactly one
\* PaymentTransferred event carrying that accountNumber.
C4_ChargeAdvancesDue ==
  [][(last'.op = "transferPayment" /\ last'.result = "ok") =>
       LET a == last'.arg IN
         /\ PaymentExists(a)
         /\ recurringPayments'[a].paymentDue =
              recurringPayments[a].paymentDue + recurringPayments[a].timeIntervalSeconds
         /\ log' = Append(log, [type |-> "PaymentTransferred", index |-> a])
    ]_vars

\* A charge succeeded later than the due time it settled.
C4_Witness ==
  /\ Succeeded("transferPayment")
  /\ now > recurringPayments[last.arg].paymentDue
             - recurringPayments[last.arg].timeIntervalSeconds

\* C5: if the token pull of a charge cannot complete (sender balance or
\* allowance below amount), the attempt aborts with no effect: paymentDue, the
\* canceled flag, every balance and the event log stay as they were.
C5_FailedPullAborts ==
  [][(/\ last'.op = "transferPayment"
      /\ PaymentExists(last'.arg)
      /\ ~recurringPayments[last'.arg].canceled
      /\ now >= recurringPayments[last'.arg].paymentDue
      /\ \/ balances[recurringPayments[last'.arg].sender] < recurringPayments[last'.arg].amount
         \/ allowance[recurringPayments[last'.arg].sender] < recurringPayments[last'.arg].amount) =>
       /\ last'.result = "InsufficientFunds"
       /\ recurringPayments' = recurringPayments
       /\ balances' = balances
       /\ allowance' = allowance
       /\ log' = log
    ]_vars

\* A due charge failed on the allowance while the balance would have covered it.
C5_Witness ==
  /\ last.op = "transferPayment"
  /\ last.result = "InsufficientFunds"
  /\ balances[recurringPayments[last.arg].sender] >= recurringPayments[last.arg].amount
  /\ allowance[recurringPayments[last.arg].sender] < recurringPayments[last.arg].amount

\* C6: cancelRecurringPayment(accountNumber) succeeds only when the caller is
\* the record's stored sender, its stored recipient or the registry owner; a
\* call from any other identity is rejected with an authorization failure and
\* leaves the record, the cancelled-accounts list and the event log unchanged.
C6_CancelAuthorized ==
  [][(last'.op = "cancelRecurringPayment" /\ PaymentExists(last'.arg)) =>
       LET p == recurringPayments[last'.arg]
           authorized == last'.caller \in {p.sender, p.recipient, "owner"}
       IN  /\ last'.result = "ok" => authorized
           /\ ~authorized =>
                /\ last'.result = "AuthorizationFailure"
                /\ recurringPayments' = recurringPayments
                /\ cancelledPayments' = cancelledPayments
                /\ log' = log
    ]_vars

\* The payment interface, which is none of the three, tried to cancel a live
\* subscription and was turned away.
C6_Witness ==
  /\ last.op = "cancelRecurringPayment"
  /\ last.result = "AuthorizationFailure"
  /\ last.caller = recurringPayments[last.arg].paymentInterface
  /\ ~recurringPayments[last.arg].canceled

\* C7: cancelling twice on the same accountNumber fails the second time with
\* AlreadyTerminal: after any sequence of cancel attempts on a record, canceled
\* is true and exactly one cancellation event for that accountNumber has been
\* emitted; the same holds for cancelAccount on an automation account.
C7_CancelOnce ==
  [][/\ IF /\ last'.op = "cancelRecurringPayment"
           /\ PaymentExists(last'.arg)
           /\ recurringPayments[last'.arg].canceled
        THEN /\ last'.result # "ok"
             /\ IF last'.caller \in {recurringPayments[last'.arg].sender,
                                     recurringPayments[last'.arg].recipient, "owner"}
                THEN last'.result = "AlreadyTerminal"
                ELSE TRUE
             /\ recurringPayments' = recurringPayments
             /\ log' = log
        ELSE TRUE
     /\ IF /\ last'.op = "cancelAccount"
           /\ \E n \in DOMAIN accountsByNumber :
                /\ accountsByNumber[n].account = last'.caller
                /\ accountsByNumber[n].id = last'.arg
                /\ accountsByNumber[n].cancelled
        THEN /\ last'.result = "AlreadyTerminal"
             /\ accountsByNumber' = accountsByNumber
             /\ log' = log
        ELSE TRUE
     /\ \A a \in DOMAIN recurringPayments' :
          Cardinality(PaymentsCancelled(a)') = IF recurringPayments'[a].canceled THEN 1 ELSE 0
     /\ \A n \in DOMAIN accountsByNumber' :
          Cardinality(AccountsCancelled(n)') = IF accountsByNumber'[n].cancelled THEN 1 ELSE 0
    ]_vars

\* The payer cancelled, then tried again.
C7_Witness ==
  /\ last.op = "cancelRecurringPayment"
  /\ last.result = "AlreadyTerminal"
  /\ recurringPayments[last.arg].canceled
  /\ Cardinality(PaymentsCancelled(last.arg)) = 1

\* C8: in both registries the cancelled flag is terminal: over every sequence of
\* operations (create, cancel, charge/execute, fee-configuration update), once a
\* record's canceled/cancelled flag is true it is true in every later state, and
\* Active -> Cancelled is the only status transition any record ever makes.
C8_CancelledIsTerminal ==
  [][/\ \A a \in DOMAIN recurringPayments :
          /\ a \in DOMAIN recurringPayments'
          /\ recurringPayments[a].canceled => recurringPayments'[a].canceled
          /\ recurringPayments'[a].canceled # recurringPayments[a].canceled =>
               last'.op = "cancelRecurringPayment" /\ last'.arg = a
     /\ \A a \in DOMAIN recurringPayments' \ DOMAIN recurringPayments :
         recurringPayments'[a].canceled = FALSE
     /\ \A n \in DOMAIN accountsByNumber :
         /\ n \in DOMAIN accountsByNumber'
         /\ accountsByNumber[n].cancelled => accountsByNumber'[n].cancelled
         /\ accountsByNumber'[n].cancelled # accountsByNumber[n].cancelled =>
              last'.op = "cancelAccount" /\ last'.caller = accountsByNumber[n].account
     /\ \A n \in DOMAIN accountsByNumber' \ DOMAIN accountsByNumber :
         accountsByNumber'[n].cancelled = FALSE
    ]_vars

\* A subscription was cancelled and another was created after it.
C8_Witness ==
  /\ Succeeded("createRecurringPayment")
  /\ \E a \in DOMAIN recurringPayments :
       recurringPayments[a].canceled /\ a # LastEvent.accountNumber

\* C9: within each registry, every successful registration is assigned an
\* accountNumber different from every accountNumber assigned before it,
\* including those of cancelled records, and every record once created stays
\* retrievable under its accountNumber in all later states; a failed
\* registration never makes an existing number be handed out twice.
C9_AccountNumbersNeverReused ==
  [][/\ \A a \in DOMAIN recurringPayments :
          /\ a \in DOMAIN recurringPayments'
          /\ recurringPayments'[a].accountNumber = a
          /\ recurringPayments'[a].sender = recurringPayments[a].sender
          /\ recurringPayments'[a].recipient = recurringPayments[a].recipient
     /\ \A n \in DOMAIN accountsByNumber :
         /\ n \in DOMAIN accountsByNumber'
         /\ accountsByNumber'[n].account = accountsByNumber[n].account
         /\ accountsByNumber'[n].id = accountsByNumber[n].id
     /\ last'.op = "createRecurringPayment" =>
          IF last'.result = "ok"
          THEN \E a \in DOMAIN recurringPayments' \ DOMAIN recurringPayments :
                 /\ DOMAIN recurringPayments' = DOMAIN recurringPayments \cup {a}
                 /\ log'[Len(log')].accountNumber = a
                 /\ accountNumbersByAddress'[last'.caller] =
                      Append(accountNumbersByAddress[last'.caller], a)
          ELSE /\ DOMAIN recurringPayments' = DOMAIN recurringPayments
               /\ paymentCounter' = paymentCounter
     /\ last'.op = "createAccount" =>
          IF last'.result = "ok"
          THEN \E n \in DOMAIN accountsByNumber' \ DOMAIN accountsByNumber :
                 /\ DOMAIN accountsByNumber' = DOMAIN accountsByNumber \cup {n}
                 /\ accountsByAddress'[last'.caller] =
                      Append(accountsByAddress[last'.caller], n)
          ELSE /\ DOMAIN accountsByNumber' = DOMAIN accountsByNumber
               /\ accountCounter' = accountCounter
    ]_vars

\* An automation account was registered after an earlier one had been
\* cancelled, and both are on record.
C9_Witness ==
  /\ Succeeded("createAccount")
  /\ cancelledAccounts # <<>>
  /\ Cardinality(DOMAIN accountsByNumber) = 2

\* C10: createAccount(id) from a caller that has already registered the same id
\* fails with DuplicateRegistration and changes nothing, while createAccount
\* with the same id from a different caller (able to pay the creation fee)
\* succeeds and yields a distinct internal accountNumber; hence at most one
\* record exists per (account, id) pair in every reachable state.
C10_OneAccountPerCallerAndId ==
  [][/\ \A c \in Contracts, id \in Ids :
          Cardinality({n \in DOMAIN accountsByNumber' :
                         /\ accountsByNumber'[n].account = c
                         /\ accountsByNumber'[n].id = id}) <= 1
     /\ last'.op = "createAccount" =>
          LET held == {n \in DOMAIN accountsByNumber : accountsByNumber[n].id = last'.arg}
              own == {n \in held : accountsByNumber[n].account = last'.caller}
          IN  /\ own # {} =>
                   /\ last'.result = "DuplicateRegistration"
                   /\ UNCHANGED <<chain, erc20, payments, automation, integrator, log>>
              /\ (/\ own = {}
                  /\ held # {}
                  /\ balances[last'.caller] >= accountCreationFee
                  /\ allowance[last'.caller] >= accountCreationFee) =>
                   /\ last'.result = "ok"
                   /\ \E n \in DOMAIN accountsByNumber' \ held :
                        /\ n \notin DOMAIN accountsByNumber
                        /\ accountsByNumber'[n].account = last'.caller
                        /\ accountsByNumber'[n].id = last'.arg
    ]_vars

\* Two contracts hold the same id under different account numbers, and one of
\* them has just been refused a second registration of it.
C10_Witness ==
  /\ last.op = "createAccount"
  /\ last.result = "DuplicateRegistration"
  /\ \E m, n \in DOMAIN accountsByNumber :
       /\ m # n
       /\ accountsByNumber[m].id = last.arg
       /\ accountsByNumber[n].id = last.arg
       /\ accountsByNumber[m].account # accountsByNumber[n].account

-----------------------------------------------------------------------------
(* Statements about the Automation Layer: fees and refunds *)

\* C11: a successful createAccount(id) moves exactly the currently configured
\* accountCreationFee from the caller to the registry owner and stores that same
\* amount in the new record; if the caller's balance or allowance cannot cover
\* the fee, the registration aborts with no record, no accountNumber consumed,
\* no address-index entry, no balance change and no AccountCreated event.
C11_CreationFeeCharged ==
  [][last'.op = "createAccount" =>
       LET c == last'.caller
           fee == accountCreationFee
           own == {n \in DOMAIN accountsByNumber :
                     /\ accountsByNumber[n].account = c
                     /\ accountsByNumber[n].id = last'.arg}
       IN  /\ IF last'.result = "ok"
              THEN /\ balances'[c] = balances[c] - fee
                   /\ balances'["owner"] = balances["owner"] + fee
                   /\ \A x \in Addresses \ {c, "owner"} : balances'[x] = balances[x]
                   /\ \E n \in DOMAIN accountsByNumber' \ DOMAIN accountsByNumber :
                        /\ accountsByNumber'[n].account = c
                        /\ accountsByNumber'[n].accountCreationFee = fee
              ELSE TRUE
           /\ IF /\ last'.arg # 0
                 /\ own = {}
                 /\ balances[c] < fee \/ allowance[c] < fee
              THEN /\ last'.result = "InsufficientFunds"
                   /\ accountsByNumber' = accountsByNumber
                   /\ accountCounter' = accountCounter
                   /\ accountsByAddress' = accountsByAddress
                   /\ balances' = balances
                   /\ allowance' = allowance
                   /\ log' = log
              ELSE TRUE
    ]_vars

\* A contract that had approved the initial fee tried to register after the
\* owner raised it.
C11_Witness ==
  /\ last.op = "createAccount"
  /\ last.result = "InsufficientFunds"
  /\ accountCreationFee = RaisedCreationFee
  /\ allowance[last.caller] < accountCreationFee
  /\ balances[last.caller] >= accountCreationFee

\* C12: a successful cancelAccount(id) transfers from the owner to the caller
\* exactly the accountCreationFee stored in that record at its creation, for
\* every sequence of fee-configuration updates performed between the creation
\* and the cancellation; a configuration update never changes the stored fee of
\* an existing record.
C12_RefundIsStoredFee ==
  [][
      /\ \A n \in DOMAIN accountsByNumber :
           accountsByNumber'[n].accountCreationFee = accountsByNumber[n].accountCreationFee
      /\ IF last'.op = "cancelAccount" /\ last'.result = "ok"
         THEN \E n \in DOMAIN accountsByNumber :
                /\ accountsByNumber[n].account = last'.caller
                /\ accountsByNumber[n].id = last'.arg
                /\ balances'[last'.caller] =
                     balances[last'.caller] + accountsByNumber[n].accountCreationFee
                /\ balances'["owner"] =
                     balances["owner"] - accountsByNumber[n].accountCreationFee
                /\ \A x \in Addresses \ {last'.caller, "owner"} : balances'[x] = balances[x]
         ELSE TRUE
      /\ IF last'.op = "setAccountCreationFee"
         THEN accountsByNumber' = accountsByNumber /\ balances' = balances
         ELSE TRUE
    ]_vars

\* An account registered at one fee was cancelled after the owner had set
\* another.
C12_Witness ==
  /\ Succeeded("cancelAccount")
  /\ \E n \in DOMAIN accountsByNumber :
       /\ accountsByNumber[n].account = last.caller
       /\ accountsByNumber[n].id = last.arg
       /\ accountsByNumber[n].accountCreationFee # accountCreationFee

-----------------------------------------------------------------------------
(* Statements about the Automation Layer: authorization and execution *)

\* C14: only the account that registered an automation record can cancel it:
\* for every sequence of operations, a cancelAccount call made by caller A never
\* changes the cancelled flag, stored fee or refund balance of a record whose
\* stored account is not A, including when another caller registered the same
\* id.
C14_CancelOnlyOwnAccount ==
  [][last'.op = "cancelAccount" =>
       \A n \in DOMAIN accountsByNumber :
         IF accountsByNumber[n].account # last'.caller
         THEN /\ accountsByNumber'[n] = accountsByNumber[n]
              /\ balances'[accountsByNumber[n].account] = balances[accountsByNumber[n].account]
         ELSE accountsByNumber'[n].cancelled # accountsByNumber[n].cancelled =>
                accountsByNumber[n].id = last'.arg
    ]_vars

\* A contract cancelled its account while another contract holds an active
\* account under the same id.
C14_Witness ==
  /\ Succeeded("cancelAccount")
  /\ \E n \in DOMAIN accountsByNumber :
       /\ accountsByNumber[n].id = last.arg
       /\ accountsByNumber[n].account # last.caller
       /\ ~accountsByNumber[n].cancelled

C16_FailedExecutionLeavesNoTrace ==
  [][(last'.op = "simpleAutomation" /\ last'.arg \in DOMAIN accountsByNumber) =>
       LET acc == accountsByNumber[last'.arg]
           incomplete ==
             \/ now < nextDue[acc.account][acc.id]
             \/ last'.result = "ActionFailed"
             \/ balances[acc.account] < AutomationFee
             \/ allowance[acc.account] < AutomationFee
       IN  IF incomplete \/ last'.result # "ok"
           THEN /\ last'.result # "ok"
                /\ log' = log
                /\ balances' = balances
                /\ allowance' = allowance
                /\ nextDue' = nextDue
                /\ UNCHANGED automation
           ELSE TRUE
    ]_vars

\* The check passed and the fee could have been paid, but the action failed.
C16_Witness ==
  /\ last.op = "simpleAutomation"
  /\ last.result = "ActionFailed"
  /\ now >= nextDue[accountsByNumber[last.arg].account][accountsByNumber[last.arg].id]
  /\ balances[accountsByNumber[last.arg].account] >= AutomationFee
  /\ allowance[accountsByNumber[last.arg].account] >= AutomationFee

\* C17: every TransactionSuccess(accountNumber) event in the finalized log
\* corresponds to one attempt in which the account was not cancelled, the
\* delegated check returned true, the caller's simpleAutomation(id) ran to
\* completion with the id stored for that accountNumber, and the per-call
\* automation fee was paid from the caller to the invoking node; the number of
\* such events equals the number of fee payments.
C17_SuccessEventMeansAllSteps ==
  [][
      /\ IF Len(log') > Len(log) /\ log'[Len(log')].type = "TransactionSuccess"
         THEN LET n == log'[Len(log')].index
                  acc == accountsByNumber[n]
              IN  /\ last'.op = "simpleAutomation"
                  /\ last'.arg = n
                  /\ last'.result = "ok"
                  /\ n \in DOMAIN accountsByNumber
                  /\ ~acc.cancelled
                  /\ now >= nextDue[acc.account][acc.id]
                  /\ nextDue' = [nextDue EXCEPT ![acc.account][acc.id] = now + 604800]
                  /\ balances'[acc.account] = balances[acc.account] - AutomationFee
                  /\ balances'[last'.caller] = balances[last'.caller] + AutomationFee
                  /\ last'.caller = "node"
         ELSE balances'["node"] = balances["node"]
      /\ balances'["node"] = AutomationFee * Cardinality(Emitted("TransactionSuccess")')
    ]_vars

\* A node ran an account whose id differs from its accountNumber and was paid.
C17_Witness ==
  /\ Succeeded("simpleAutomation")
  /\ LastEvent = [type |-> "TransactionSuccess", index |-> last.arg]
  /\ accountsByNumber[last.arg].id # last.arg
  /\ balances["node"] = AutomationFee

\* C18: for every interleaving of a cancelAccount call and node execution
\* attempts on the same automation account, operations apply one at a time and
\* no execution succeeds after the cancellation has taken effect: no
\* TransactionSuccess event, hook effect or per-call fee for an accountNumber
\* occurs later in the log than that account's AccountCancelled event.
C18_NoExecutionAfterCancel ==
  [][
      /\ \A i, j \in 1 .. Len(log') :
           (i < j /\ log'[i].type = "AccountCancelled" /\ log'[j].type = "TransactionSuccess")
             => log'[j].index # log'[i].index
      /\ IF /\ last'.op = "simpleAutomation"
            /\ last'.arg \in DOMAIN accountsByNumber
            /\ accountsByNumber[last'.arg].cancelled
         THEN /\ last'.result = "AlreadyTerminal"
              /\ log' = log
              /\ nextDue' = nextDue
              /\ balances' = balances
              /\ allowance' = allowance
         ELSE TRUE
    ]_vars

\* An account that had run once was cancelled; when it came due again, with the
\* fee at hand, the node's attempt was refused.
C18_Witness ==
  /\ last.op = "simpleAutomation"
  /\ last.result = "AlreadyTerminal"
  /\ \E i \in Emitted("TransactionSuccess") : log[i].index = last.arg
  /\ now >= nextDue[accountsByNumber[last.arg].account][accountsByNumber[last.arg].id]
  /\ balances[accountsByNumber[last.arg].account] >= AutomationFee
  /\ allowance[accountsByNumber[last.arg].account] >= AutomationFee

-----------------------------------------------------------------------------
(* Statements about lookup by address *)

\* C19: for every caller and every successful createAccount call,
\* getAccountsByAddress(caller) read before and after the call differs by
\* exactly one new element, which is the newly assigned accountNumber; a failed
\* createAccount leaves the list unchanged, and the lists of all other addresses
\* are unchanged in both cases.
C19_CreateAccountAppendsOne ==
  [][last'.op = "createAccount" =>
       LET before == getAccountsByAddress(last'.caller) IN
       IF last'.result = "ok"
       THEN /\ \E n \in DOMAIN accountsByNumber' \ DOMAIN accountsByNumber :
                 /\ accountsByNumber'[n].account = last'.caller
                 /\ accountsByNumber'[n].id = last'.arg
                 /\ accountsByAddress'[last'.caller] = Append(before, n)
                 /\ \A i \in 1 .. Len(before) : before[i] # n
            /\ \A x \in Addresses \ {last'.caller} :
                 accountsByAddress'[x] = accountsByAddress[x]
       ELSE accountsByAddress' = accountsByAddress
    ]_vars

\* A contract registered its second account.
C19_Witness ==
  /\ Succeeded("createAccount")
  /\ Len(getAccountsByAddress(last.caller)) = 2

\* C20: lookup by address is append-only: in both registries, cancellation,
\* charging and execution never remove or reorder entries of
\* getAccountsByAddress / getAccountNumbersByAddress, so in every reachable
\* state the list for an address contains every accountNumber ever assigned to
\* that address, cancelled or not (for subscriptions, both the sender's and the
\* recipient's lists contain the subscription).
C20_LookupIsAppendOnly ==
  [][
      /\ \A x \in Addresses :
           /\ Len(accountNumbersByAddress[x]) <= Len(accountNumbersByAddress'[x])
           /\ accountNumbersByAddress[x] =
                SubSeq(accountNumbersByAddress'[x], 1, Len(accountNumbersByAddress[x]))
           /\ Len(accountsByAddress[x]) <= Len(accountsByAddress'[x])
           /\ accountsByAddress[x] = SubSeq(accountsByAddress'[x], 1, Len(accountsByAddress[x]))
      /\ last'.op \in {"cancelRecurringPayment", "transferPayment", "cancelAccount",
                       "simpleAutomation", "setAccountCreationFee"} =>
           /\ accountNumbersByAddress' = accountNumbersByAddress
           /\ accountsByAddress' = accountsByAddress
      /\ \A a \in DOMAIN recurringPayments' :
           /\ \E i \in 1 .. Len(accountNumbersByAddress'[recurringPayments'[a].sender]) :
                accountNumbersByAddress'[recurringPayments'[a].sender][i] = a
           /\ \E i \in 1 .. Len(accountNumbersByAddress'[recurringPayments'[a].recipient]) :
                accountNumbersByAddress'[recurringPayments'[a].recipient][i] = a
      /\ \A n \in DOMAIN accountsByNumber' :
           \E i \in 1 .. Len(accountsByAddress'[accountsByNumber'[n].account]) :
             accountsByAddress'[accountsByNumber'[n].account][i] = n
    ]_vars

\* A subscription that was charged and then cancelled is still listed for its
\* sender and for its recipient.
C20_Witness ==
  \E a \in DOMAIN recurringPayments :
    /\ recurringPayments[a].canceled
    /\ PaymentsTransferred(a) # {}
    /\ \E i \in 1 .. Len(getAccountNumbersByAddress(recurringPayments[a].sender)) :
         getAccountNumbersByAddress(recurringPayments[a].sender)[i] = a
    /\ \E i \in 1 .. Len(getAccountNumbersByAddress(recurringPayments[a].recipient)) :
         getAccountNumbersByAddress(recurringPayments[a].recipient)[i] = a

-----------------------------------------------------------------------------
(* C21: in both registries getCancelledAccounts() lists exactly the        *)
(* accountNumbers whose cancelled flag is set, each once, and agrees with  *)
(* isPaymentCanceled / isAccountCanceled for every accountNumber; a cancel *)
(* that was rejected leaves the list as it was.                            *)

C21_CancelledListMatchesFlags ==
  [][
     /\ \A i \in 1 .. Len(getCancelledPayments') :
          /\ getCancelledPayments'[i] \in DOMAIN recurringPayments'
          /\ recurringPayments'[getCancelledPayments'[i]].canceled
          /\ \A j \in 1 .. Len(getCancelledPayments') :
               getCancelledPayments'[i] = getCancelledPayments'[j] => i = j
     /\ \A i \in 1 .. Len(getCancelledAccounts') :
          /\ getCancelledAccounts'[i] \in DOMAIN accountsByNumber'
          /\ accountsByNumber'[getCancelledAccounts'[i]].cancelled
          /\ \A j \in 1 .. Len(getCancelledAccounts') :
               getCancelledAccounts'[i] = getCancelledAccounts'[j] => i = j
     /\ \A a \in AccountNumbers :
          /\ isPaymentCanceled(a)' <=>
               \E i \in 1 .. Len(getCancelledPayments') : getCancelledPayments'[i] = a
          /\ isAccountCanceled(a)' <=>
               \E i \in 1 .. Len(getCancelledAccounts') : getCancelledAccounts'[i] = a
     /\ \A a \in DOMAIN recurringPayments' :
          recurringPayments'[a].canceled => isPaymentCanceled(a)'
     /\ \A a \in DOMAIN accountsByNumber' :
          accountsByNumber'[a].cancelled => isAccountCanceled(a)'
     /\ (last'.op \in {"cancelRecurringPayment", "cancelAccount"} /\ last'.result # "ok")
          => (getCancelledPayments' = getCancelledPayments
              /\ getCancelledAccounts' = getCancelledAccounts)
  ]_vars

\* One subscription is cancelled and listed, the other is active, and the
\* latest transaction is a rejected attempt to cancel.
C21_Witness ==
  /\ last.op = "cancelRecurringPayment"
  /\ last.result \in {"AuthorizationFailure", "AlreadyTerminal"}
  /\ Len(cancelledPayments) = 1
  /\ \E a \in DOMAIN recurringPayments : ~recurringPayments[a].canceled

-----------------------------------------------------------------------------
(* C22: with node operators that keep serving, an automation account that  *)
(* is not cancelled, whose hook answers true and whose contract holds the  *)
(* balance and allowance for the per-call fee is eventually executed (the  *)
(* call succeeds and its TransactionSuccess event is logged), unless it is *)
(* cancelled or its contract loses the fee first. The log of the model     *)
(* holds MaxLog events: a behaviour whose log is full has no room left for *)
(* the event.                                                              *)

C22_EligibleAccountIsExecuted ==
  \A n \in AccountNumbers :
    LET Active == n \in DOMAIN accountsByNumber /\ ~accountsByNumber[n].cancelled
        Funded == /\ balances[accountsByNumber[n].account] >= AutomationFee
                  /\ allowance[accountsByNumber[n].account] >= AutomationFee
        HookTrue == now >= nextDue[accountsByNumber[n].account][accountsByNumber[n].id]
        Executed == /\ last = [op |-> "simpleAutomation", caller |-> Node, arg |-> n,
                               result |-> "ok"]
                    /\ log[Len(log)] = [type |-> "TransactionSuccess", index |-> n]
    IN  (Active /\ HookTrue /\ Funded /\ Len(log) < MaxLog)
          ~> (Executed \/ ~Active \/ ~Funded \/ Len(log) = MaxLog)

\* An account that was ready a week after its registration has been run.
C22_Witness ==
  /\ last.op = "simpleAutomation" /\ last.result = "ok"
  /\ log[Len(log)] = [type |-> "TransactionSuccess", index |-> last.arg]
  /\ ~accountsByNumber[last.arg].cancelled
  /\ nextDue[accountsByNumber[last.arg].account][accountsByNumber[last.arg].id]
       = now + 604800

-----------------------------------------------------------------------------
(* C23: no operation changes the sender, recipient, token or               *)
(* paymentInterface of an existing subscription or the account or id of an *)
(* existing automation record. A successful cancellation changes only the  *)
(* flag of its record (besides the cancelled list, the refund and the      *)
(* log), a successful charge only the paymentDue of its record (besides    *)
(* balances and log), and no step changes any other record.                *)

C23_RecordsChangeOnlyWhereStated ==
  [][
     /\ \A a \in DOMAIN recurringPayments :
          /\ a \in DOMAIN recurringPayments'
          /\ recurringPayments'[a].sender = recurringPayments[a].sender
          /\ recurringPayments'[a].recipient = recurringPayments[a].recipient
          /\ recurringPayments'[a].token = recurringPayments[a].token
          /\ recurringPayments'[a].paymentInterface = recurringPayments[a].paymentInterface
          /\ recurringPayments'[a] # recurringPayments[a]
               => /\ last'.op \in {"cancelRecurringPayment", "transferPayment"}
                  /\ last'.result = "ok"
                  /\ last'.arg = a
     /\ \A n \in DOMAIN accountsByNumber :
          /\ n \in DOMAIN accountsByNumber'
          /\ accountsByNumber'[n].account = accountsByNumber[n].account
          /\ accountsByNumber'[n].id = accountsByNumber[n].id
          /\ accountsByNumber'[n] # accountsByNumber[n]
               => /\ last'.op = "cancelAccount" /\ last'.result = "ok"
                  /\ last'.caller = accountsByNumber[n].account
                  /\ last'.arg = accountsByNumber[n].id
     /\ (last'.op = "cancelRecurringPayment" /\ last'.result = "ok")
          => /\ recurringPayments' =
                  [recurringPayments EXCEPT ![last'.arg].canceled = TRUE]
             /\ UNCHANGED <<paymentCounter, accountNumbersByAddress, balances, allowance,
                            chain, automation, integrator>>
     /\ (last'.op = "cancelAccount" /\ last'.result = "ok")
          => /\ \E n \in DOMAIN accountsByNumber :
                  /\ accountsByNumber[n].account = last'.caller
                  /\ accountsByNumber[n].id = last'.arg
                  /\ accountsByNumber' = [accountsByNumber EXCEPT ![n].cancelled = TRUE]
             /\ UNCHANGED <<accountCounter, accountsByAddress, accountCreationFee,
                            chain, payments, integrator>>
     /\ (last'.op = "transferPayment" /\ last'.result = "ok")
          => /\ recurringPayments' =
                  [recurringPayments EXCEPT
                     ![last'.arg].paymentDue = recurringPayments'[last'.arg].paymentDue]
             /\ UNCHANGED <<paymentCounter, accountNumbersByAddress, cancelledPayments,
                            chain, automation, integrator>>
  ]_vars

\* Of two subscriptions, the latest transaction cancelled one; the other is
\* active and both still name the parties they were created with.
C23_Witness ==
  /\ last.op = "cancelRecurringPayment" /\ last.result = "ok"
  /\ DOMAIN recurringPayments = {0, 1}
  /\ recurringPayments[last.arg].canceled
  /\ ~recurringPayments[1 - last.arg].canceled
  /\ \A a \in {0, 1} : recurringPayments[a].sender = "alice"
                        /\ recurringPayments[a].recipient = "merchant"

-----------------------------------------------------------------------------
(* C24: for an accountNumber that was never assigned the queries answer    *)
(* without failing and in the negative: isSubscriptionValid,               *)
(* isPaymentCanceled and isAccountCanceled are false and no list query     *)
(* returns the number (an address without records gets the empty list);    *)
(* cancelRecurringPayment on it fails with NotFound, changes no state and  *)
(* emits no event.                                                         *)

C24_UnassignedNumberIsUnknown ==
  [][
     /\ \A a \in AccountNumbers :
          a >= paymentCounter'
            => /\ isSubscriptionValid(a)' = FALSE
               /\ isPaymentCanceled(a)' = FALSE
               /\ \A i \in 1 .. Len(getCancelledPayments') : getCancelledPayments'[i] # a
               /\ \A x \in Addresses : \A i \in 1 .. Len(accountNumbersByAddress'[x]) :
                    accountNumbersByAddress'[x][i] # a
     /\ \A n \in AccountNumbers :
          n >= accountCounter'
            => /\ isAccountCanceled(n)' = FALSE
               /\ \A i \in 1 .. Len(getCancelledAccounts') : getCancelledAccounts'[i] # n
               /\ \A x \in Addresses : \A i \in 1 .. Len(accountsByAddress'[x]) :
                    accountsByAddress'[x][i] # n
     /\ \A x \in Addresses :
          /\ (\A a \in DOMAIN recurringPayments' :
                 recurringPayments'[a].sender # x /\ recurringPayments'[a].recipient # x)
               => getAccountNumbersByAddress(x)' = <<>>
          /\ (\A n \in DOMAIN accountsByNumber' : accountsByNumber'[n].account # x)
               => getAccountsByAddress(x)' = <<>>
     /\ (last'.op = "cancelRecurringPayment" /\ last'.arg >= paymentCounter)
          => /\ last'.result = "NotFound"
             /\ UNCHANGED <<chain, erc20, payments, automation, integrator, log>>
  ]_vars

\* With accountNumber 0 assigned and 1 not, a cancelRecurringPayment(1) has
\* just been rejected.
C24_Witness ==
  /\ last.op = "cancelRecurringPayment" /\ last.arg = 1 /\ last.result = "NotFound"
  /\ paymentCounter = 1
  /\ now <= 86400
  /\ ~isSubscriptionValid(1) /\ isSubscriptionValid(0)

-----------------------------------------------------------------------------
(* C25: a registration with an invalid argument is rejected as a whole:    *)
(* createRecurringPayment with amount 0 or interval 0 and createAccount    *)
(* with id 0 fail with InvalidArgument, create no record, use up no        *)
(* accountNumber, move no tokens and emit no event; so every stored        *)
(* subscription has amount > 0 and timeIntervalSeconds > 0 and every       *)
(* stored automation record has id > 0.                                    *)

C25_InvalidRegistrationRejected ==
  [][
     /\ \A a \in DOMAIN recurringPayments' :
          recurringPayments'[a].amount > 0 /\ recurringPayments'[a].timeIntervalSeconds > 0
     /\ \A n \in DOMAIN accountsByNumber' : accountsByNumber'[n].id > 0
     /\ (last'.op = "createRecurringPayment" /\ last'.result # "ok")
          => /\ last'.result = "InvalidArgument"
             /\ UNCHANGED <<chain, erc20, payments, automation, integrator, log>>
     /\ (last'.op = "createAccount" /\ last'.arg = 0)
          => /\ last'.result = "InvalidArgument"
             /\ UNCHANGED <<chain, erc20, payments, automation, integrator, log>>
     /\ (last'.op \in {"createRecurringPayment", "createAccount"} /\ last'.result = "ok")
          => (paymentCounter' + accountCounter' = paymentCounter + accountCounter + 1)
  ]_vars

\* After a first registration, a createAccount(0) has just been rejected and
\* the next accountNumber is still 1.
C25_Witness ==
  /\ last.op = "createAccount" /\ last.arg = 0 /\ last.result = "InvalidArgument"
  /\ accountCounter = 1
  /\ DOMAIN accountsByNumber = {0}
  /\ Len(log) = 1

-----------------------------------------------------------------------------
(* C26: for the example contract (register() and simpleAutomation(id) set  *)
(* nextDue[id] = now + interval, checkSimpleAutomation(id) answers         *)
(* now >= nextDue[id]) run through the registry, an execution succeeds     *)
(* only when at least `interval` seconds have passed since the latest      *)
(* earlier success for the same account, or since its registration when    *)
(* there is none: two TransactionSuccess events of one account are never   *)
(* less than `interval` apart, and a second execution in the same period   *)
(* is rejected.                                                            *)

-----------------------------------------------------------------------------
(* C27: a subscriber is never charged more often than the schedule allows. *)
(* For a subscription whose first due time is d0 = t0 + f (creation time   *)
(* plus free trial, as its RecurringPaymentCreated event records it) and   *)
(* whose interval is I, paymentDue = d0 + n * I where n is the number of   *)
(* PaymentTransferred events of the accountNumber, and n is at most the    *)
(* number of due instants d0 + k * I (k >= 0) that are <= now.             *)

C27_ChargesFollowSchedule ==
  \A a \in DOMAIN recurringPayments :
    LET n == Cardinality({i \in 1 .. Len(log) :
                            log[i] = [type |-> "PaymentTransferred", index |-> a]})
        d0 == CreatedEvent(a).paymentDue
        I == recurringPayments[a].timeIntervalSeconds
        instants == IF now >= d0 THEN ((now - d0) \div I) + 1 ELSE 0
    IN  /\ recurringPayments[a].paymentDue = d0 + n * I
        /\ n <= instants

\* A subscription due at 0 with a daily interval has been charged at 0 and a
\* day later: twice, with two due instants passed.
C27_Witness ==
  \E a \in DOMAIN recurringPayments :
    /\ Cardinality(PaymentsTransferred(a)) = 2
    /\ CreatedEvent(a).paymentDue = 0
    /\ recurringPayments[a].paymentDue = 2 * 86400
    /\ now = 86400

-----------------------------------------------------------------------------
(* C28: right after a successful charge (a PaymentTransferred event) at    *)
(* time now of a subscription whose paymentDue was d and whose interval is *)
(* I, isSubscriptionValid(accountNumber) is true exactly when              *)
(* now <= d + I + 24h. A charge later than d + 24h therefore leaves the    *)
(* subscription valid only if it came no later than d + I + 24h; a charge  *)
(* later than that leaves it invalid until further charges catch up.       *)

C28_ValidAfterChargeWithinOneInterval ==
  [][
     \A a \in AccountNumbers :
       (last'.op = "transferPayment" /\ last'.result = "ok" /\ last'.arg = a)
         => /\ log' = Append(log, [type |-> "PaymentTransferred", index |-> a])
            /\ isSubscriptionValid(a)'
                 <=> (now <= recurringPayments[a].paymentDue
                               + recurringPayments[a].timeIntervalSeconds + 86400)
  ]_vars

\* The statement without the limit: every successful charge leaves the
\* subscription valid, however late it came.
C28_ValidAfterEveryCharge ==
  [][
     \A a \in AccountNumbers :
       (last'.op = "transferPayment" /\ last'.result = "ok" /\ last'.arg = a)
         => isSubscriptionValid(a)'
  ]_vars

\* A subscription due at 0 was charged a day and a second later, after the
\* grace period of that due date, and is valid.
C28_Witness ==
  /\ last.op = "transferPayment" /\ last.result = "ok"
  /\ now = 86400 + 1
  /\ recurringPayments[last.arg].paymentDue = 86400
  /\ recurringPayments[last.arg].timeIntervalSeconds = 86400
  /\ LastEvent = [type |-> "PaymentTransferred", index |-> last.arg]
  /\ isSubscriptionValid(last.arg)

-----------------------------------------------------------------------------
(* C29: token amounts are conserved. A successful charge debits the sender *)
(* exactly `amount` and credits recipient, paymentInterface and protocol   *)
(* owner with shares that sum to exactly `amount`; createRecurringPayment  *)
(* and cancelRecurringPayment move no tokens; and in every step of either  *)
(* registry no balance becomes negative and the total of all balances is   *)
(* unchanged.                                                              *)

C29_TokensConserved ==
  [][
     /\ \A x \in Addresses : balances'[x] >= 0
     /\ TotalOf(balances', Addresses) = TotalOf(balances, Addresses)
     /\ last'.op \in {"createRecurringPayment", "cancelRecurringPayment"}
          => balances' = balances
     /\ \A a \in AccountNumbers :
          (last'.op = "transferPayment" /\ last'.result = "ok" /\ last'.arg = a)
            => LET p == recurringPayments[a]
                   toRecipient == balances'[p.recipient] - balances[p.recipient]
                   toInterface == balances'[p.paymentInterface] - balances[p.paymentInterface]
                   toOwner == balances'[Owner] - balances[Owner]
               IN  /\ balances'[p.sender] = balances[p.sender] - p.amount
                   /\ toRecipient >= 0 /\ toInterface >= 0 /\ toOwner >= 0
                   /\ toRecipient + toInterface + toOwner = p.amount
                   /\ \A x \in Addresses \ {p.sender, p.recipient, p.paymentInterface, Owner} :
                        balances'[x] = balances[x]
  ]_vars

\* One charge of 10 USDC has been paid out: 9.9 to the merchant and 0.05 each
\* to the gateway and the owner.
C29_Witness ==
  /\ last.op = "transferPayment" /\ last.result = "ok"
  /\ balances["alice"] = 10000000
  /\ balances["merchant"] = 9900000
  /\ balances["gateway"] = 50000
  /\ balances["owner"] = 50000

-----------------------------------------------------------------------------
(* C30: an id stays taken after cancellation. Once a caller has registered *)
(* id, every later createAccount(id) of that caller is rejected as a       *)
(* duplicate, also after the account was cancelled: a cancelled            *)
(* (account, id) pair is never registered again or reactivated, and the    *)
(* pair has a single record for cancelAccount(id) to refer to.             *)

C30_IdStaysTakenAfterCancel ==
  [][
     /\ (/\ last'.op = "createAccount"
         /\ \E n \in DOMAIN accountsByNumber :
               /\ accountsByNumber[n].account = last'.caller
               /\ accountsByNumber[n].id = last'.arg)
          => /\ last'.result = "DuplicateRegistration"
             /\ UNCHANGED <<chain, erc20, payments, automation, integrator, log>>
     /\ \A n \in DOMAIN accountsByNumber :
          accountsByNumber[n].cancelled
            => n \in DOMAIN accountsByNumber' /\ accountsByNumber'[n].cancelled
     /\ \A m, n \in DOMAIN accountsByNumber' :
          (/\ accountsByNumber'[m].account = accountsByNumber'[n].account
           /\ accountsByNumber'[m].id = accountsByNumber'[n].id)
            => m = n
  ]_vars

\* The caller's account for the id is cancelled and its createAccount(id) has
\* just been rejected as a duplicate.
C30_Witness ==
  /\ last.op = "createAccount" /\ last.result = "DuplicateRegistration"
  /\ \E n \in DOMAIN accountsByNumber :
        /\ accountsByNumber[n].account = last.caller
        /\ accountsByNumber[n].id = last.arg
        /\ accountsByNumber[n].cancelled
  /\ accountCounter = 1

====
